---- MODULE Spec2Model ----
(***************************************************************************)
(* BloomFilter and check_password_uniqueness of                            *)
(* check_password_uniqueness.py, as a state machine over one filter.       *)
(*                                                                         *)
(* Python values are records [type, val]: type is the Python type name and *)
(* val is the text str() gives for the value, as a sequence of characters  *)
(* (every character used is ASCII, so characters and UTF-8 bytes agree).   *)
(***************************************************************************)
EXTENDS Integers, Sequences, FiniteSets, TLC

\* Bounds of the model.
MaxSize == 3
MaxHashes == 2
MaxLen == 2

\* size, num_hashes, bits: the fields of the BloomFilter.
\* pc, new_passwords, idx, results: check_password_uniqueness: whether it is
\*   running ("loop") or not ("idle"), its argument, the position of its
\*   loop in new_passwords (from 1), and its dict.
\* added: the items for which add has returned.
\* log: the statuses the running call has assigned, in order: log[j] is the
\*   status given to new_passwords[j].
\* event: the call or loop iteration that was executed last: what it was
\*   (op), on which item, what it returned or raised (val), and for an add
\*   whether add had already returned for that item before (again).
VARIABLES size, num_hashes, bits, added, pc, new_passwords, idx, results, log, event

vars == <<size, num_hashes, bits, added, pc, new_passwords, idx, results, log, event>>

----------------------------------------------------------------------------
\* Python values.

Str(s) == [type |-> "str", val |-> s]

None == [type |-> "NoneType", val |-> <<"N", "o", "n", "e">>]

EmptyList == [type |-> "list", val |-> <<"[", "]">>]

\* The strings passed to add, contains and check_password_uniqueness.
Strings ==
  { Str(<<"p", "w">>), Str(<<" ", "p", "w", " ">>), Str(<<>>),
    Str(<<" ", " ">>) }

\* The candidate values a new_passwords list is made of.
Candidates == Strings \cup {None, EmptyList}

\* Lists of at most n candidates.
Lists(n) == UNION { [1..k -> Candidates] : k \in 0..n }

\* isinstance(pwd, str)
isinstance_str(pwd) == pwd.type = "str"

\* Values of these types have no __hash__: using one as a dict key raises
\* TypeError.
Unhashable(v) == v.type \in {"list", "dict", "set"}

\* The whitespace characters strip removes, among the characters the strings
\* of the model are made of.
Whitespace == {" ", "\t", "\n", "\r"}

\* str.strip(): the string without its leading and trailing whitespace.
RECURSIVE lstrip(_)
lstrip(s) ==
  IF s /= <<>> /\ Head(s) \in Whitespace THEN lstrip(Tail(s)) ELSE s

RECURSIVE rstrip(_)
rstrip(s) ==
  IF s /= <<>> /\ s[Len(s)] \in Whitespace
  THEN rstrip(SubSeq(s, 1, Len(s) - 1))
  ELSE s

strip(s) == rstrip(lstrip(s))

----------------------------------------------------------------------------
\* Hashing.

DecimalDigit(d) ==
  CASE d = 0 -> "0" [] d = 1 -> "1" [] d = 2 -> "2" [] d = 3 -> "3"
    [] d = 4 -> "4" [] d = 5 -> "5" [] d = 6 -> "6" [] d = 7 -> "7"
    [] d = 8 -> "8" [] d = 9 -> "9"

\* str(i) of an integer i >= 0.
RECURSIVE IntToStr(_)
IntToStr(i) ==
  IF i < 10 THEN <<DecimalDigit(i)>>
  ELSE IntToStr(i \div 10) \o <<DecimalDigit(i % 10)>>

\* f"{item}-{i}"
salted_value(item, i) == item.val \o <<"-">> \o IntToStr(i)

\* hashlib.sha256(s.encode('utf-8')).hexdigest(), tabulated on the salted
\* values of Strings for the salts 0..3.
sha256_hexdigest(s) ==
  CASE s = <<"p", "w", "-", "0">> ->
         <<"f", "6", "c", "f", "a", "2", "d", "9", "6", "c", "7", "c", "8", "4", "b", "1", "a", "9", "a", "b", "1", "8", "c", "1", "1", "9", "e", "7", "3", "8", "5", "4">> \o
         <<"8", "e", "6", "b", "8", "c", "f", "9", "2", "2", "2", "0", "7", "e", "9", "1", "1", "8", "e", "9", "7", "e", "e", "8", "5", "1", "f", "3", "4", "6", "f", "2">>
    [] s = <<"p", "w", "-", "1">> ->
         <<"8", "6", "c", "c", "7", "d", "c", "b", "e", "f", "5", "e", "9", "3", "f", "7", "b", "c", "9", "d", "d", "3", "7", "b", "f", "8", "4", "e", "7", "c", "5", "e">> \o
         <<"3", "6", "8", "b", "4", "d", "8", "3", "1", "5", "b", "9", "e", "7", "1", "2", "5", "c", "e", "8", "a", "1", "4", "0", "e", "2", "f", "5", "c", "f", "f", "3">>
    [] s = <<"p", "w", "-", "2">> ->
         <<"9", "9", "a", "1", "6", "4", "0", "7", "8", "3", "e", "5", "b", "8", "a", "1", "e", "4", "f", "8", "8", "1", "2", "5", "0", "8", "e", "8", "a", "6", "a", "f">> \o
         <<"3", "b", "1", "3", "5", "4", "c", "a", "5", "c", "e", "3", "a", "6", "1", "f", "0", "d", "9", "5", "7", "8", "6", "9", "e", "7", "e", "8", "d", "c", "2", "c">>
    [] s = <<"p", "w", "-", "3">> ->
         <<"f", "4", "8", "c", "f", "a", "a", "4", "6", "5", "6", "0", "9", "c", "5", "1", "7", "7", "f", "d", "9", "0", "c", "c", "c", "e", "f", "0", "b", "4", "c", "e">> \o
         <<"e", "b", "6", "6", "6", "8", "8", "3", "a", "c", "5", "e", "9", "a", "5", "6", "1", "1", "6", "2", "e", "1", "3", "4", "8", "7", "9", "0", "4", "4", "7", "3">>
    [] s = <<" ", "p", "w", " ", "-", "0">> ->
         <<"e", "0", "b", "9", "6", "b", "0", "e", "7", "0", "2", "9", "7", "f", "d", "9", "6", "c", "c", "2", "7", "3", "2", "f", "2", "e", "a", "b", "1", "3", "a", "c">> \o
         <<"5", "f", "7", "a", "d", "4", "9", "6", "0", "9", "a", "f", "6", "c", "9", "4", "5", "0", "9", "7", "d", "4", "8", "3", "c", "2", "e", "e", "b", "2", "c", "a">>
    [] s = <<" ", "p", "w", " ", "-", "1">> ->
         <<"6", "8", "0", "c", "2", "e", "7", "e", "b", "9", "9", "f", "b", "a", "1", "3", "4", "d", "3", "4", "a", "3", "2", "f", "3", "0", "2", "1", "0", "b", "6", "3">> \o
         <<"6", "9", "4", "e", "b", "a", "d", "9", "f", "1", "c", "8", "f", "c", "d", "d", "f", "5", "d", "d", "8", "3", "2", "e", "5", "2", "0", "6", "3", "4", "8", "1">>
    [] s = <<" ", "p", "w", " ", "-", "2">> ->
         <<"6", "6", "2", "9", "4", "d", "3", "8", "7", "a", "7", "b", "0", "6", "1", "c", "4", "7", "b", "b", "d", "7", "6", "e", "1", "2", "5", "6", "a", "8", "1", "d">> \o
         <<"b", "e", "4", "b", "d", "e", "4", "0", "a", "5", "9", "b", "3", "a", "3", "c", "2", "4", "0", "f", "f", "7", "0", "d", "d", "f", "b", "b", "3", "5", "9", "e">>
    [] s = <<" ", "p", "w", " ", "-", "3">> ->
         <<"c", "d", "1", "a", "1", "6", "d", "1", "a", "8", "1", "a", "3", "5", "8", "f", "c", "6", "1", "1", "c", "3", "0", "e", "0", "a", "8", "b", "c", "1", "a", "4">> \o
         <<"d", "d", "b", "b", "5", "4", "5", "2", "e", "b", "3", "5", "c", "f", "6", "3", "8", "f", "a", "f", "6", "7", "8", "a", "3", "c", "f", "f", "7", "e", "f", "8">>
    [] s = <<"-", "0">> ->
         <<"e", "d", "7", "9", "f", "2", "6", "d", "0", "3", "f", "4", "1", "2", "b", "d", "e", "3", "d", "b", "2", "0", "6", "6", "0", "1", "a", "6", "9", "8", "e", "0">> \o
         <<"b", "b", "4", "5", "1", "b", "e", "a", "9", "e", "3", "c", "c", "2", "5", "2", "8", "9", "6", "3", "6", "a", "c", "1", "7", "e", "a", "7", "4", "b", "0", "a">>
    [] s = <<"-", "1">> ->
         <<"1", "b", "a", "d", "6", "b", "8", "c", "f", "9", "7", "1", "3", "1", "f", "c", "e", "a", "b", "8", "5", "4", "3", "e", "8", "1", "f", "7", "7", "5", "7", "1">> \o
         <<"9", "5", "f", "b", "b", "1", "d", "3", "6", "b", "3", "7", "6", "e", "e", "9", "9", "4", "a", "d", "1", "c", "f", "1", "7", "6", "9", "9", "c", "4", "6", "4">>
    [] s = <<"-", "2">> ->
         <<"c", "f", "3", "b", "a", "e", "3", "9", "d", "d", "6", "9", "2", "0", "4", "8", "a", "8", "b", "f", "9", "6", "1", "1", "8", "2", "e", "6", "a", "3", "4", "d">> \o
         <<"f", "d", "3", "2", "3", "e", "e", "b", "0", "7", "4", "8", "e", "1", "6", "2", "e", "a", "f", "0", "5", "5", "1", "0", "7", "f", "1", "c", "b", "8", "7", "3">>
    [] s = <<"-", "3">> ->
         <<"6", "1", "5", "b", "d", "d", "1", "7", "c", "2", "5", "5", "6", "f", "8", "2", "f", "3", "8", "4", "3", "9", "2", "e", "a", "8", "5", "5", "7", "f", "8", "c">> \o
         <<"c", "8", "8", "b", "0", "3", "5", "0", "1", "c", "7", "5", "9", "e", "2", "3", "0", "9", "3", "a", "b", "0", "b", "2", "a", "9", "b", "5", "c", "d", "4", "8">>
    [] s = <<" ", " ", "-", "0">> ->
         <<"9", "1", "4", "3", "d", "1", "7", "7", "d", "2", "4", "f", "a", "0", "8", "4", "7", "d", "b", "0", "1", "9", "e", "c", "c", "1", "b", "3", "4", "f", "6", "2">> \o
         <<"5", "e", "6", "2", "f", "9", "0", "a", "3", "9", "a", "2", "1", "2", "9", "9", "7", "f", "d", "7", "2", "2", "6", "a", "9", "2", "b", "e", "6", "d", "f", "7">>
    [] s = <<" ", " ", "-", "1">> ->
         <<"2", "4", "4", "9", "c", "4", "a", "5", "d", "d", "c", "2", "5", "0", "0", "0", "f", "5", "a", "d", "9", "f", "f", "7", "5", "f", "d", "d", "8", "4", "5", "e">> \o
         <<"4", "0", "8", "e", "6", "9", "c", "7", "4", "0", "5", "a", "5", "e", "f", "3", "6", "0", "d", "9", "2", "2", "3", "9", "a", "0", "3", "f", "5", "4", "4", "a">>
    [] s = <<" ", " ", "-", "2">> ->
         <<"5", "e", "4", "6", "7", "8", "3", "b", "3", "8", "b", "e", "3", "b", "f", "b", "0", "6", "d", "d", "5", "2", "8", "7", "2", "0", "f", "0", "6", "f", "2", "2">> \o
         <<"c", "8", "2", "a", "f", "4", "1", "c", "5", "e", "d", "2", "f", "3", "8", "7", "2", "4", "5", "a", "e", "4", "a", "6", "1", "a", "e", "9", "f", "3", "6", "5">>
    [] s = <<" ", " ", "-", "3">> ->
         <<"f", "2", "6", "4", "6", "5", "6", "c", "0", "d", "8", "6", "7", "7", "6", "5", "e", "d", "3", "6", "c", "4", "8", "f", "5", "d", "9", "8", "3", "f", "1", "5">> \o
         <<"a", "6", "1", "5", "9", "9", "e", "f", "0", "e", "6", "9", "f", "2", "b", "7", "0", "d", "9", "4", "0", "c", "2", "1", "6", "c", "e", "d", "9", "d", "9", "5">>

\* The value of a hex digit, as int(c, 16) reads it.
HexDigits ==
  [c \in {"0", "1", "2", "3", "4", "5", "6", "7", "8", "9", "a", "b", "c",
          "d", "e", "f"} |->
     CASE c = "0" -> 0 [] c = "1" -> 1 [] c = "2" -> 2 [] c = "3" -> 3
       [] c = "4" -> 4 [] c = "5" -> 5 [] c = "6" -> 6 [] c = "7" -> 7
       [] c = "8" -> 8 [] c = "9" -> 9 [] c = "a" -> 10 [] c = "b" -> 11
       [] c = "c" -> 12 [] c = "d" -> 13 [] c = "e" -> 14 [] c = "f" -> 15]

HexValue(c) == HexDigits[c]

\* The value of the four hex digits of h that start at position k.
HexWord(h, k) ==
  HexValue(h[k]) * 4096 + HexValue(h[k + 1]) * 256 + HexValue(h[k + 2]) * 16
    + HexValue(h[k + 3])

\* int(h, 16) reduced modulo n > 0, read from the left four digits at a
\* time from position k on (acc is the value of the digits before k,
\* modulo n; a digest has a multiple of four digits).
RECURSIVE HexMod(_, _, _, _)
HexMod(h, n, k, acc) ==
  IF k > Len(h) THEN acc
  ELSE HexMod(h, n, k + 4, (acc * 65536 + HexWord(h, k)) % n)

\* int(hash_digest, 16) % n for n /= 0. Python's % takes the sign of the
\* divisor.
int16_mod(hash_digest, n) ==
  IF n > 0 THEN HexMod(hash_digest, n, 1, 0)
  ELSE LET r == HexMod(hash_digest, -n, 1, 0) IN IF r = 0 THEN 0 ELSE r + n

\* The body of the loop of _hashes for every size n /= 0, salt i and string
\* of the model: the position int(sha256(f"{item}-{i}"), 16) % n.
Positions ==
  [n \in (-1..MaxSize) \ {0} |->
     [i \in 0..(MaxHashes - 1) |->
        [item \in Strings |->
           int16_mod(sha256_hexdigest(salted_value(item, i)), n)]]]

\* One iteration of the loop of _hashes: the position for salt i.
position(item, i) == Positions[size][i][item]

\* The loop of _hashes from salt i on: results.append(position).
RECURSIVE hashes_loop(_, _, _)
hashes_loop(item, i, results_) ==
  IF i >= num_hashes THEN results_
  ELSE hashes_loop(item, i + 1, Append(results_, position(item, i)))

\* BloomFilter._hashes: the positions for the salts 0..num_hashes-1, or
\* ZeroDivisionError from "% self.size" in the first iteration.
_hashes(item) ==
  IF num_hashes > 0 /\ size = 0
  THEN [exc |-> "ZeroDivisionError", results |-> <<>>]
  ELSE [exc |-> "none", results |-> hashes_loop(item, 0, <<>>)]

----------------------------------------------------------------------------
\* The bit array: a Python list of booleans, indexed from 0.

len(b) == Cardinality(DOMAIN b)

\* A list index is in range when -len <= pos < len; a negative index counts
\* from the end. Anything else raises IndexError.
InRange(b, pos) == -len(b) <= pos /\ pos < len(b)

\* Index with the positions counted from the wrong end of the list.
Index_from_end(b, pos) == IF pos >= 0 THEN len(b) - 1 - pos ELSE pos + len(b)

Index(b, pos) == IF pos >= 0 THEN pos ELSE pos + len(b)

\* self.bits[pos]
getitem(b, pos) == b[Index(b, pos)]

\* self.bits[pos] = not self.bits[pos]: the bit flipped, not set.
setitem_flip(b, pos) == [b EXCEPT ![Index(b, pos)] = ~b[Index(b, pos)]]

\* self.bits[pos] = True
setitem_True(b, pos) == [b EXCEPT ![Index(b, pos)] = TRUE]

\* The loop of add left after its first iteration.
add_loop_first_only(b, positions) ==
  IF positions = <<>> THEN [exc |-> "none", bits |-> b]
  ELSE IF ~InRange(b, Head(positions)) THEN [exc |-> "IndexError", bits |-> b]
  ELSE [exc |-> "none", bits |-> setitem_True(b, Head(positions))]

\* for pos in self._hashes(item): self.bits[pos] = True
RECURSIVE add_loop(_, _)
add_loop(b, positions) ==
  IF positions = <<>> THEN [exc |-> "none", bits |-> b]
  ELSE IF ~InRange(b, Head(positions)) THEN [exc |-> "IndexError", bits |-> b]
  ELSE add_loop(setitem_True(b, Head(positions)), Tail(positions))

\* BloomFilter.add on the bit array b: the exception raised ("none" when it
\* returns) and the bit array it leaves.
add(b, item) ==
  LET h == _hashes(item)
  IN  IF h.exc /= "none" THEN [exc |-> h.exc, bits |-> b]
      ELSE add_loop(b, h.results)

RECURSIVE contains_loop(_, _)
contains_loop(b, positions) ==
  IF positions = <<>> THEN [exc |-> "none", value |-> TRUE]
  ELSE IF ~InRange(b, Head(positions))
       THEN [exc |-> "IndexError", value |-> FALSE]
  ELSE IF ~getitem(b, Head(positions)) THEN [exc |-> "none", value |-> FALSE]
  ELSE contains_loop(b, Tail(positions))

\* BloomFilter.contains on the bit array b: the exception raised ("none"
\* when it returns) and the value returned.
contains(b, item) ==
  LET h == _hashes(item)
  IN  IF h.exc /= "none" THEN [exc |-> h.exc, value |-> FALSE]
      ELSE contains_loop(b, h.results)

----------------------------------------------------------------------------
\* The results dict: the (key, value) pairs in insertion order.

HasKey(d, k) == \E i \in DOMAIN d : d[i][1] = k

\* results[k]
Get(d, k) == d[CHOOSE i \in DOMAIN d : d[i][1] = k][2]

\* results.setdefault(k, v): an existing key keeps its first value.
dict_setdefault(d, k, v) == IF HasKey(d, k) THEN d ELSE Append(d, <<k, v>>)

\* results[k] = v: a new key is appended, an existing key keeps its place
\* and gets the new value.
dict_setitem(d, k, v) ==
  IF HasKey(d, k)
  THEN [i \in DOMAIN d |-> IF d[i][1] = k THEN <<k, v>> ELSE d[i]]
  ELSE Append(d, <<k, v>>)

\* not isinstance(pwd, str) or pwd.strip() == ""
IsInvalid(pwd) == ~isinstance_str(pwd) \/ strip(pwd.val) = <<>>

----------------------------------------------------------------------------
\* The state machine.

PyBool(v) == IF v THEN "True" ELSE "False"

\* The state after BloomFilter(size, num_hashes): the constructor stores its
\* arguments as given and builds [False] * size, which is the empty list for
\* size <= 0.
Init ==
  /\ size \in -1..MaxSize
  /\ num_hashes \in 0..MaxHashes
  /\ bits = [p \in 0..(size - 1) |-> FALSE]
  /\ added = {}
  /\ pc = "idle"
  /\ new_passwords = <<>>
  /\ idx = 1
  /\ results = <<>>
  /\ log = <<>>
  /\ event = [op |-> "__init__", item |-> None, val |-> "None",
              again |-> FALSE]

\* bloom.add(item)
Add(item) ==
  /\ pc = "idle"
  /\ LET r == add(bits, item)
     IN  /\ bits' = r.bits
         /\ added' = IF r.exc = "none" THEN added \cup {item} ELSE added
         /\ event' = [op |-> "add", item |-> item,
                      val |-> IF r.exc = "none" THEN "None" ELSE r.exc,
                      again |-> item \in added]
  /\ UNCHANGED <<size, num_hashes, pc, new_passwords, idx, results, log>>

\* bloom.contains(item)
Contains(item) ==
  /\ pc = "idle"
  /\ LET r == contains(bits, item)
     IN  event' = [op |-> "contains", item |-> item,
                   val |-> IF r.exc = "none" THEN PyBool(r.value) ELSE r.exc,
                   again |-> FALSE]
  /\ UNCHANGED <<size, num_hashes, bits, added, pc, new_passwords, idx,
                 results, log>>

\* check_password_uniqueness(bloom, pws) is entered: results = {}.
Call(pws) ==
  /\ pc = "idle"
  /\ pc' = "loop"
  /\ new_passwords' = pws
  /\ idx' = 1
  /\ results' = <<>>
  /\ log' = <<>>
  /\ event' = [op |-> "check_password_uniqueness", item |-> None,
               val |-> "call", again |-> FALSE]
  /\ UNCHANGED <<size, num_hashes, bits, added>>

\* The call's frame is gone: its locals hold nothing any more.
Leave ==
  /\ pc' = "idle"
  /\ new_passwords' = <<>>
  /\ idx' = 1
  /\ results' = <<>>
  /\ log' = <<>>

\* The loop body leaves the call by an exception.
Raise(pwd, exc, b) ==
  /\ Leave
  /\ bits' = b
  /\ event' = [op |-> "check_password_uniqueness", item |-> pwd, val |-> exc,
               again |-> FALSE]
  /\ UNCHANGED <<size, num_hashes, added>>

\* The loop body stores a status for pwd and goes on to the next candidate.
Classify(pwd, status, b, a) ==
  /\ results' = dict_setitem(results, pwd, status)
  /\ log' = Append(log, status)
  /\ idx' = idx + 1
  /\ bits' = b
  /\ added' = a
  /\ event' = [op |-> "classify", item |-> pwd, val |-> status,
               again |-> FALSE]
  /\ UNCHANGED <<size, num_hashes, pc, new_passwords>>

\* results[pwd] = "invalid password"; continue. A key that cannot be hashed
\* makes the assignment raise TypeError.
Invalid(pwd) ==
  IF Unhashable(pwd) THEN Raise(pwd, "TypeError", bits)
  ELSE Classify(pwd, "invalid password", bits, added)

\* The else branch with the call of add left out.
Unique_without_add(pwd) == Classify(pwd, "unique", bits, added)

\* The else branch: bloom_filter.add(pwd); results[pwd] = "unique".
Unique(pwd) ==
  LET r == add(bits, pwd)
  IN  IF r.exc /= "none" THEN Raise(pwd, r.exc, r.bits)
      ELSE Classify(pwd, "unique", r.bits, added \cup {pwd})

\* if bloom_filter.contains(pwd): results[pwd] = "already used"; else: ...
Valid(pwd) ==
  LET c == contains(bits, pwd)
  IN  IF c.exc /= "none" THEN Raise(pwd, c.exc, bits)
      ELSE IF c.value THEN Classify(pwd, "already used", bits, added)
      ELSE Unique(pwd)

\* One iteration of "for pwd in new_passwords".
Step ==
  /\ pc = "loop"
  /\ idx <= Len(new_passwords)
  /\ LET pwd == new_passwords[idx]
     IN  IF IsInvalid(pwd) THEN Invalid(pwd) ELSE Valid(pwd)

\* return results: the loop is over and the dict goes to the caller.
Return ==
  /\ pc = "loop"
  /\ idx > Len(new_passwords)
  /\ Leave
  /\ event' = [op |-> "check_password_uniqueness", item |-> None,
               val |-> "return", again |-> FALSE]
  /\ UNCHANGED <<size, num_hashes, bits, added>>

Next ==
  \/ \E item \in Strings : Add(item)
  \/ \E item \in Strings : Contains(item)
  \/ \E pws \in Lists(MaxLen) : Call(pws)
  \/ Step
  \/ Return

Spec == Init /\ [][Next]_vars

----------------------------------------------------------------------------
\* Properties.

Exceptions == {"ZeroDivisionError", "IndexError", "TypeError"}

ReturnsTrue == [exc |-> "none", value |-> TRUE]

\* The loop of check_password_uniqueness is over and "return results" is
\* the next statement: results is the mapping the caller gets.
Returning == pc = "loop" /\ idx > Len(new_passwords)

\* The loop of check_password_uniqueness is about to process a candidate.
Processing == pc = "loop" /\ idx <= Len(new_passwords)

\* The entries of the dict d whose key is k.
Entries(d, k) == {i \in DOMAIN d : d[i][1] = k}

\* C1: no false negatives. In every state, whatever add, contains and
\* check_password_uniqueness calls have been made, contains(x) returns True
\* for every item x whose add has returned, and every contains call made on
\* such an item did return True.
C1_NoFalseNegatives ==
  /\ \A x \in added : contains(bits, x) = ReturnsTrue
  /\ (event.op = "contains" /\ event.item \in added) => event.val = "True"

\* contains(x) has just returned True for an added item x, in a filter that
\* holds a second item and still has a bit unset.
C1_Witness ==
  /\ event.op = "contains"
  /\ event.item \in added
  /\ event.val = "True"
  /\ Cardinality(added) >= 2
  /\ \E p \in DOMAIN bits : ~bits[p]

\* C2: the constructor rejects size <= 0 and num_hashes <= 0, so every
\* filter that exists has a positive size and a positive num_hashes, and add
\* and contains never raise.
C2_OnlyValidFilters ==
  /\ size > 0
  /\ num_hashes > 0
  /\ event.op \in {"add", "contains"} => event.val \notin Exceptions

\* C3: check_password_uniqueness never raises, whatever the candidates are
\* (stated here for the filters with a positive size and num_hashes, on
\* which add and contains do not raise).
C3_NeverRaises ==
  (size > 0 /\ num_hashes > 0 /\ event.op = "check_password_uniqueness")
    => event.val \notin Exceptions

\* C4: a candidate that is not a string, or is a blank string, gets the
\* status invalid and leaves the bit array as it is; a string with
\* non-blank content is not given the status invalid.
C4_InvalidCandidates ==
  [][Processing =>
       LET pwd == new_passwords[idx]
       IN  /\ IsInvalid(pwd) =>
                /\ bits' = bits
                /\ event'.op = "classify"
                /\ Entries(results', pwd) /= {}
                /\ Get(results', pwd) = "invalid password"
           /\ (isinstance_str(pwd) /\ strip(pwd.val) /= <<>>) =>
                event'.val /= "invalid password"]_vars

\* Every candidate processed so far in this call that was classified unique
\* is contained in the filter, and the statuses are those of the candidates
\* in input order.
C5_UniqueAreContained ==
  /\ pc = "loop" => Len(log) = idx - 1
  /\ \A j \in DOMAIN log :
       log[j] = "unique" => contains(bits, new_passwords[j]) = ReturnsTrue

\* C5: the candidates are processed in input order and, for a valid
\* candidate, when contains returns True the status is "already used" and
\* the bits stay as they are; when contains returns False, add is called
\* and the status is "unique"; the filter contains every item classified
\* unique.
C5_ValidCandidates ==
  [][Processing =>
       LET pwd == new_passwords[idx]
           c == contains(bits, pwd)
       IN  /\ (~IsInvalid(pwd) /\ c = ReturnsTrue) =>
                /\ bits' = bits
                /\ added' = added
                /\ log' = Append(log, "already used")
                /\ Get(results', pwd) = "already used"
           /\ (~IsInvalid(pwd) /\ c.exc = "none" /\ ~c.value) =>
                /\ add(bits, pwd).exc = "none"
                /\ bits' = add(bits, pwd).bits
                /\ added' = added \cup {pwd}
                /\ log' = Append(log, "unique")
                /\ Get(results', pwd) = "unique"
           /\ C5_UniqueAreContained']_vars

\* A call is returning that classified one candidate unique and another one
\* already used.
C5_Witness ==
  /\ Returning
  /\ \E j, k \in DOMAIN log : log[j] = "unique" /\ log[k] = "already used"

\* C6 as stated: when the same valid string appears twice in the input, the
\* first occurrence is classified unique, the second already used, and the
\* returned mapping reports both outcomes (stated here for the filters with
\* a positive size and num_hashes).
C6_BothOutcomesReported ==
  (size > 0 /\ num_hashes > 0 /\ Returning) =>
    \A j, k \in DOMAIN new_passwords :
      (j < k /\ new_passwords[j] = new_passwords[k]
         /\ ~IsInvalid(new_passwords[j])
         /\ \A i \in 1..(j - 1) : new_passwords[i] /= new_passwords[j]) =>
        /\ log[j] = "unique"
        /\ log[k] = "already used"
        /\ \E i \in DOMAIN results :
             results[i] = <<new_passwords[j], "unique">>
        /\ \E i \in DOMAIN results :
             results[i] = <<new_passwords[j], "already used">>

\* Among the candidates the running call has processed, a valid string that
\* occurred twice was classified already used at every occurrence after the
\* first, and the mapping has exactly one entry for it, whose status is
\* already used.
C6_OneEntryPerString ==
  \A j, k \in DOMAIN log :
    (j < k /\ new_passwords[j] = new_passwords[k]
       /\ ~IsInvalid(new_passwords[j])) =>
      /\ log[k] = "already used"
      /\ Cardinality(Entries(results, new_passwords[j])) = 1
      /\ Get(results, new_passwords[j]) = "already used"

\* C6 as amended: when the same valid string appears twice in the input,
\* its first occurrence is classified unique, and added, when contains
\* returns False for it and already used when contains returns True; every
\* later occurrence is classified already used; and the mapping has exactly
\* one entry for the string, which holds the last outcome, already used.
C6_LastOutcomeReported ==
  [][(Processing /\ event'.op = "classify"
        /\ ~IsInvalid(new_passwords[idx])) =>
       LET pwd == new_passwords[idx]
           first == \A j \in 1..(idx - 1) : new_passwords[j] /= pwd
       IN  /\ first =>
                /\ log'[idx] =
                     (IF contains(bits, pwd).value THEN "already used"
                      ELSE "unique")
                /\ log'[idx] = "unique" => pwd \in added'
           /\ ~first => log'[idx] = "already used"
           /\ Cardinality(Entries(results', pwd)) = 1
           /\ Get(results', pwd) = log'[idx]
           /\ C6_OneEntryPerString']_vars

\* A call is returning whose input holds the same valid string twice: the
\* first occurrence was classified unique and the second already used.
C6_Witness ==
  /\ Returning
  /\ \E j, k \in DOMAIN log :
       /\ j < k
       /\ new_passwords[j] = new_passwords[k]
       /\ log[j] = "unique"
       /\ log[k] = "already used"

\* C7: a bit that is true never becomes false, the bit array has length
\* size, and size and num_hashes keep their values.
C7_FilterShape ==
  [][/\ len(bits) = size
     /\ len(bits') = size'
     /\ size' = size
     /\ num_hashes' = num_hashes
     /\ \A p \in DOMAIN bits : bits[p] => bits'[p]]_vars

\* C8: add is idempotent: add(x) on a filter that x was added to before,
\* with or without other items added in between, leaves the bit array as it
\* is.
C8_AddIdempotent ==
  [][\A x \in Strings : (x \in added /\ Add(x)) => bits' = bits]_vars

\* add(x) has just returned for an item x that had been added before, in a
\* filter that holds a second item.
C8_Witness ==
  /\ event.op = "add"
  /\ event.again
  /\ event.val = "None"
  /\ Cardinality(added) >= 2
  /\ \E p \in DOMAIN bits : bits[p]

\* The positions _hashes gives for x.
HashPositions(x) == {position(x, i) : i \in 0..(num_hashes - 1)}

\* C10: bit p is true exactly when p is a hash position of an item added so
\* far, and those positions are in 0..size-1; so a fresh filter has no bit
\* set and contains, which adds nothing, changes no bit.
C10_BitsAreAddedPositions ==
  /\ \A x \in added : HashPositions(x) \subseteq 0..(size - 1)
  /\ \A p \in DOMAIN bits :
       bits[p] <=> \E x \in added : p \in HashPositions(x)
  /\ added = {} => \A p \in DOMAIN bits : ~bits[p]

\* contains has just returned False in a filter that has bits set and bits
\* unset.
C10_Witness ==
  /\ event.op = "contains"
  /\ event.val = "False"
  /\ \E p \in DOMAIN bits : bits[p]
  /\ \E p \in DOMAIN bits : ~bits[p]
====
